---------------------------- MODULE Spec2Model ----------------------------
(***************************************************************************)
(* State-machine model of src/app.js (MaxkorotZI): identity store, session *)
(* key derivation, message codec, signaling over a broadcast medium and    *)
(* the per-peer connection registry.                                       *)
(*                                                                         *)
(* Conventions.                                                            *)
(*  - A byte array (Uint8Array) is a sequence over 0..255.                 *)
(*  - A base64 text is a sequence of symbols: 0..63 is the index of a      *)
(*    character in the base64 alphabet, PadChar is '=', BadChar is a       *)
(*    character outside the alphabet.                                      *)
(*  - An exception is the value Throw returned in place of a result.       *)
(*  - Every party runs the same program; its variables are indexed by the  *)
(*    party.                                                               *)
(***************************************************************************)
EXTENDS Integers, Sequences, FiniteSets, TLC

(***************************************************************************)
(* Program constants                                                       *)
(***************************************************************************)
PrivLen == 32
PubLen == 33
ShortIdBytes == 6
PadChar == 64
BadChar == 65
Blank == 66

(***************************************************************************)
(* Bounds of the model                                                     *)
(***************************************************************************)
\* number of distinct key pairs the random generator can return per party
MaxKeys == 2
\* import / regenerate actions per party
MaxIdOps == 2
\* join-room actions per party
MaxJoins == 2
\* connect-to-peer actions per party
MaxConnects == 1
\* ICE candidates a transport reports
MaxIce == 1
\* send-text actions per party
MaxSends == 1
\* items written to the medium by outsiders
MaxInject == 1

\* null and a thrown exception, one pair per kind of value: TLC compares
\* values of one kind only
Null == [ null |-> TRUE ]         \* null object (key pair, key, description)
Throw == [ throw |-> TRUE ]       \* exception in place of an object
NullText == << -1 >>              \* null in place of a text or byte array
ThrowBytes == << -2 >>            \* exception in place of a byte array
NoRoom == << -3 >>                 \* room = null
ThrowText == << -5 >>              \* exception in place of a decrypted text

(***************************************************************************)
(* Byte and base64 helpers                                                 *)
(***************************************************************************)
RECURSIVE Fill(_, _)
Fill(n, b) == IF n = 0 THEN <<>> ELSE <<b>> \o Fill(n - 1, b)

Slice(s, from, to) ==
    \* Array.prototype.slice(from, to) on 0-based indices
    SubSeq(s, from + 1, IF to < Len(s) THEN to ELSE Len(s))

RECURSIVE toB64(_)
toB64(bytes) ==
    IF Len(bytes) = 0 THEN <<>>
    ELSE IF Len(bytes) = 1 THEN
        << bytes[1] \div 4, (bytes[1] % 4) * 16, PadChar, PadChar >>
    ELSE IF Len(bytes) = 2 THEN
        << bytes[1] \div 4,
           (bytes[1] % 4) * 16 + bytes[2] \div 16,
           (bytes[2] % 16) * 4,
           PadChar >>
    ELSE
        << bytes[1] \div 4,
           (bytes[1] % 4) * 16 + bytes[2] \div 16,
           (bytes[2] % 16) * 4 + bytes[3] \div 64,
           bytes[3] % 64 >> \o toB64(SubSeq(bytes, 4, Len(bytes)))

StripPad(str) ==
    \* atob: a text whose length is a multiple of 4 loses one or two
    \* trailing '='
    IF Len(str) > 0 /\ Len(str) % 4 = 0 /\ str[Len(str)] = PadChar
    THEN IF str[Len(str) - 1] = PadChar
         THEN SubSeq(str, 1, Len(str) - 2)
         ELSE SubSeq(str, 1, Len(str) - 1)
    ELSE str

RECURSIVE DecodeSextets(_)
DecodeSextets(s) ==
    IF Len(s) < 2 THEN <<>>
    ELSE IF Len(s) = 2 THEN << s[1] * 4 + s[2] \div 16 >>
    ELSE IF Len(s) = 3 THEN
        << s[1] * 4 + s[2] \div 16, (s[2] % 16) * 16 + s[3] \div 4 >>
    ELSE
        << s[1] * 4 + s[2] \div 16,
           (s[2] % 16) * 16 + s[3] \div 4,
           (s[3] % 4) * 64 + s[4] >> \o DecodeSextets(SubSeq(s, 5, Len(s)))

fromB64(str) ==
    \* atob drops white space before it decodes
    LET s == StripPad(SelectSeq(str, LAMBDA c : c # Blank)) IN
    IF Len(s) % 4 = 1 \/ \E i \in 1..Len(s) : s[i] \notin 0..63
    THEN ThrowBytes
    ELSE DecodeSextets(s)

shortId(bytes) ==
    SelectSeq(toB64(Slice(bytes, 0, ShortIdBytes)), LAMBDA c : c # PadChar)

RECURSIVE TrimLeft(_)
TrimLeft(text) ==
    IF text # << >> /\ Head(text) = Blank THEN TrimLeft(Tail(text)) ELSE text

RECURSIVE TrimRight(_)
TrimRight(text) ==
    IF text # << >> /\ text[Len(text)] = Blank
    THEN TrimRight(SubSeq(text, 1, Len(text) - 1))
    ELSE text

\* String.prototype.trim
trim(text) == TrimRight(TrimLeft(text))


(***************************************************************************)
(* Cryptographic collaborators.  secp256k1 is replaced by the additive     *)
(* group of integers modulo the prime GroupQ with generator GroupG: the    *)
(* public key of scalar a is a*G, the shared secret of a and b*G is        *)
(* a*(b*G).  The validity test of a private key is the real one:           *)
(* 0 < key < CurveN, on the 32 big-endian bytes.                           *)
(***************************************************************************)
GroupQ == 251
GroupG == 7

CurveN ==
    \* order of secp256k1, big-endian
    << 255, 255, 255, 255, 255, 255, 255, 255,
       255, 255, 255, 255, 255, 255, 255, 254,
       186, 174, 220, 230, 175, 72, 160, 59,
       191, 210, 94, 140, 208, 54, 65, 65 >>

RECURSIVE BytesLess(_, _)
BytesLess(a, b) ==
    \* a < b as big-endian numbers of the same length
    IF Len(a) = 0 THEN FALSE
    ELSE IF a[1] # b[1] THEN a[1] < b[1]
    ELSE BytesLess(Tail(a), Tail(b))

RECURSIVE ModQ(_, _)
ModQ(bytes, acc) ==
    IF Len(bytes) = 0 THEN acc
    ELSE ModQ(Tail(bytes), (acc * 256 + bytes[1]) % GroupQ)

IsValidPrivateKey(priv) ==
    /\ Len(priv) = PrivLen
    /\ priv # Fill(PrivLen, 0)
    /\ BytesLess(priv, CurveN)

\* a group element v and its inverse GroupQ - v share the coordinate; the
\* prefix of the compressed encoding tells them apart
XCoord(v) == IF v <= GroupQ \div 2 THEN v ELSE GroupQ - v

Point(v) ==
    \* compressed encoding: prefix 02 or 03, then the coordinate
    << (IF v <= GroupQ \div 2 THEN 2 ELSE 3), XCoord(v) >> \o Fill(PubLen - 2, 0)

Uncompressed(v) ==
    \* uncompressed encoding: prefix 04, the coordinate, the second coordinate
    << 4, XCoord(v) >> \o Fill(PubLen - 2, 0) \o << v >> \o Fill(PubLen - 2, 0)

\* Point.fromHex: the group element an encoding stands for, 0 if it is
\* the encoding of none
FromBytes(pub) ==
    IF /\ Len(pub) = PubLen
       /\ pub[1] \in { 2, 3 }
       /\ pub[2] \in 1..(GroupQ \div 2)
       /\ SubSeq(pub, 3, PubLen) = Fill(PubLen - 2, 0)
    THEN IF pub[1] = 2 THEN pub[2] ELSE GroupQ - pub[2]
    ELSE IF /\ Len(pub) = 2 * PubLen - 1
            /\ pub[PubLen + 1] \in 1..(GroupQ - 1)
            /\ pub = Uncompressed(pub[PubLen + 1])
    THEN pub[PubLen + 1]
    ELSE 0

IsValidPoint(pub) == FromBytes(pub) # 0

getPublicKey(priv) ==
    IF IsValidPrivateKey(priv)
    THEN Point((ModQ(priv, 0) * GroupG) % GroupQ)
    ELSE ThrowBytes

getSharedSecret(priv, peerPub) ==
    IF IsValidPrivateKey(priv) /\ IsValidPoint(peerPub)
    THEN Point((ModQ(priv, 0) * FromBytes(peerPub)) % GroupQ)
    ELSE ThrowBytes

\* deriveAesKey with the local private key made explicit
deriveKey(priv, peerPubB64, saltText) ==
    LET peerPub == fromB64(peerPubB64) IN
    IF peerPub = ThrowBytes THEN Throw
    ELSE LET shared == getSharedSecret(priv, peerPub) IN
         IF shared = ThrowBytes THEN Throw
         ELSE [ secret |-> Slice(shared, 1, Len(shared)),
                salt   |-> saltText,
                info   |-> "maxkorotzi-e2ee" ]

encryptMessage(aesKey, iv, text) ==
    [ iv |-> iv, data |-> [ key |-> aesKey, iv |-> iv, plain |-> text ] ]

decryptMessage(aesKey, payload) ==
    IF payload.data.key = aesKey /\ payload.data.iv = payload.iv
    THEN payload.data.plain
    ELSE ThrowText

(***************************************************************************)
(* Parties and the inputs they can be given                                *)
(***************************************************************************)
\* typed texts, letter by letter: 'r1', 'r2', 'hi'
Room1 == << 43, 53 >>
Room2 == << 43, 54 >>
Hi == << 33, 34 >>

\* a text as typed with white space around it
Padded(text) == << Blank >> \o text \o << Blank >>

\* what the room field and the message field can hold at a click
RoomTexts == { Room1, Room2, Padded(Room1), << Blank, Blank >> }

\* what the room field can be changed to without a click
RoomEdits == { << >>, Room1, Room2 }
MessageTexts == { Hi, << Blank, Blank >> }

Party == { "A", "B", "C" }
PartyNo(p) == IF p = "A" THEN 1 ELSE IF p = "B" THEN 2 ELSE 3

PrivBytes(k) == Fill(PrivLen - 1, 0) \o << k >>

\* the private keys secp.utils.randomPrivateKey can return to party p
KeyPool(p) == { PrivBytes(16 * PartyNo(p) + j) : j \in 1..MaxKeys }

KeyPair(priv) == [ priv |-> priv, pub |-> getPublicKey(priv) ]

VARIABLES
    \* identity store (lines 22-25, 32-34)
    booted,        \* init() has run
    storage,       \* localStorage: [priv, pub], texts or NullText
    myKeyPair,     \* [priv, pub] or Null
    myId,
    myPubB64,
    clipboard,     \* navigator.clipboard
    \* user interface
    roomInput,     \* elements.roomId.value
    messageInput,  \* elements.messageInput.value
    lastAlert,     \* the text of the last alert()
    messages,      \* elements.messages: sequence of <<author, text>>
    \* signaling (lines 31, 35, 36)
    room,          \* [name] of the joined room or NoRoom
    subs,          \* live mailbox listeners: set of [room, box]
    signalSeen,
    connections,   \* Map peerId -> conn, in insertion order
    \* transport collaborator: every RTCPeerConnection created so far
    peers,
    \* broadcast medium collaborator
    medium,        \* set of [key, room, box, data]
    \* history: every payload handed to channel.send, as [by, wire]
    sent,
    \* suspended async functions: set of frames
    tasks,
    \* history
    joins,         \* number of join-room clicks of a party
    handled,       \* per party: key -> number of handleSignal calls since
                   \* the last join
    dupDropped,    \* per party: an already seen key was delivered again
                   \* since the last join
    connects,      \* number of connect-to-peer actions of a party
    sends,         \* number of send-text actions of a party
    injected,      \* number of items written by outsiders
    idOps          \* number of import / regenerate actions of a party

idVars == << booted, storage, myKeyPair, myId, myPubB64, clipboard >>
uiVars == << roomInput, messageInput, lastAlert, messages >>
sigVars == << room, subs, signalSeen, connections, peers, medium, sent, tasks >>
histVars == << joins, handled, dupDropped, connects, sends, injected, idOps >>
vars == << idVars, uiVars, sigVars, histVars >>

(***************************************************************************)
(* Identity store                                                          *)
(***************************************************************************)
EmptyStorage == [ priv |-> NullText, pub |-> NullText ]

Stored(pair) == [ priv |-> toB64(pair.priv), pub |-> toB64(pair.pub) ]

\* setIdentity that leaves the short id as it was
setIdentity_KeepsId(p, pair) ==
    /\ myKeyPair' = [myKeyPair EXCEPT ![p] = pair]
    /\ myPubB64' = [myPubB64 EXCEPT ![p] = toB64(pair.pub)]
    /\ myId' = myId

\* setIdentity: the three module variables after the call
setIdentity(p, pair) ==
    /\ myKeyPair' = [myKeyPair EXCEPT ![p] = pair]
    /\ myPubB64' = [myPubB64 EXCEPT ![p] = toB64(pair.pub)]
    /\ myId' = [myId EXCEPT ![p] = shortId(pair.pub)]

\* init(): loadOrCreateKeys, setIdentity, then the listeners are attached
Boot(p) ==
    /\ ~booted[p]
    /\ booted' = [booted EXCEPT ![p] = TRUE]
    /\ IF storage[p].priv # NullText /\ storage[p].pub # NullText
          /\ storage[p].priv # << >> /\ storage[p].pub # << >>
       THEN /\ setIdentity(p, [ priv |-> fromB64(storage[p].priv),
                                pub  |-> fromB64(storage[p].pub) ])
            /\ UNCHANGED storage
       ELSE \E priv \in KeyPool(p) :
            /\ storage' = [storage EXCEPT ![p] = Stored(KeyPair(priv))]
            /\ setIdentity(p, KeyPair(priv))
    /\ UNCHANGED << clipboard, uiVars, sigVars, histVars >>

\* click on copy-id (lines 298-300)
copyId(p) ==
    /\ booted[p]
    /\ clipboard' = [clipboard EXCEPT ![p] = myId[p]]
    /\ UNCHANGED << booted, storage, myKeyPair, myId, myPubB64,
                    uiVars, sigVars, histVars >>

\* exportSeed that clears the persisted keys after copying the seed
exportSeed_Wipes(p) ==
    /\ booted[p]
    /\ clipboard' = [clipboard EXCEPT ![p] = toB64(myKeyPair[p].priv)]
    /\ lastAlert' = [lastAlert EXCEPT ![p] = "SeedCopied"]
    /\ storage' = [storage EXCEPT ![p] = EmptyStorage]
    /\ UNCHANGED << booted, myKeyPair, myId, myPubB64,
                    roomInput, messageInput, messages, sigVars, histVars >>

exportSeed(p) ==
    /\ booted[p]
    /\ clipboard' = [clipboard EXCEPT ![p] = toB64(myKeyPair[p].priv)]
    /\ lastAlert' = [lastAlert EXCEPT ![p] = "SeedCopied"]
    /\ UNCHANGED << booted, storage, myKeyPair, myId, myPubB64,
                    roomInput, messageInput, messages, sigVars, histVars >>

\* the validation without the derivation of the public key
SeedAccepted_NoKeyCheck(seed) ==
    /\ fromB64(seed) # ThrowBytes
    /\ Len(fromB64(seed)) = PrivLen

\* the decoded seed is accepted by lines 273-275
SeedAccepted(seed) ==
    /\ fromB64(seed) # ThrowBytes
    /\ Len(fromB64(seed)) = PrivLen
    /\ getPublicKey(fromB64(seed)) # ThrowBytes

importSeed(p, text) ==
    /\ booted[p]
    /\ idOps[p] < MaxIdOps
    /\ idOps' = [idOps EXCEPT ![p] = @ + 1]
    /\ LET seed == trim(text) IN
       IF seed = << >>
       THEN UNCHANGED << storage, myKeyPair, myId, myPubB64, lastAlert >>
       ELSE IF SeedAccepted(seed)
       THEN /\ storage' = [storage EXCEPT ![p] = Stored(KeyPair(fromB64(seed)))]
            /\ setIdentity(p, KeyPair(fromB64(seed)))
            /\ lastAlert' = [lastAlert EXCEPT ![p] = "SeedImported"]
       ELSE /\ lastAlert' = [lastAlert EXCEPT ![p] = "InvalidSeed"]
            /\ UNCHANGED << storage, myKeyPair, myId, myPubB64 >>
    /\ UNCHANGED << booted, clipboard, roomInput, messageInput, messages, sigVars,
                    joins, handled, dupDropped, connects, sends, injected >>

regenerate(p) ==
    /\ booted[p]
    /\ idOps[p] < MaxIdOps
    /\ idOps' = [idOps EXCEPT ![p] = @ + 1]
    /\ \E priv \in KeyPool(p) :
        /\ storage' = [storage EXCEPT ![p] = Stored(KeyPair(priv))]
        /\ setIdentity(p, KeyPair(priv))
    /\ lastAlert' = [lastAlert EXCEPT ![p] = "KeysRegenerated"]
    /\ UNCHANGED << booted, clipboard, roomInput, messageInput, messages, sigVars,
                    joins, handled, dupDropped, connects, sends, injected >>

(***************************************************************************)
(* The connections Map: a sequence of [peerId, conn] in insertion order;   *)
(* conn is the index in peers of the RTCPeerConnection the entry holds.    *)
(* Index 0 is undefined.                                                   *)
(***************************************************************************)
MapHas(m, k) == \E i \in 1..Len(m) : m[i].peerId = k

MapGet(m, k) ==
    IF MapHas(m, k)
    THEN m[CHOOSE i \in 1..Len(m) : m[i].peerId = k].conn
    ELSE 0

MapSet(m, k, v) ==
    IF MapHas(m, k)
    THEN [ i \in 1..Len(m) |->
             IF m[i].peerId = k THEN [ peerId |-> k, conn |-> v ] ELSE m[i] ]
    ELSE Append(m, [ peerId |-> k, conn |-> v ])

(***************************************************************************)
(* Transport collaborator (RTCPeerConnection), by the W3C signaling state  *)
(* machine.  A session description is [kind, by] for an offer created by   *)
(* transport `by` and [kind, by, to] for the answer of `by` to the offer   *)
(* of `to`.                                                                *)
(***************************************************************************)
Offer(t) == [ kind |-> "offer", by |-> t ]
Answer(t, o) == [ kind |-> "answer", by |-> t, to |-> o.by ]

\* new RTCPeerConnection + createDataChannel('chat') (lines 193-197)
NewPeer(p, peerId, key) ==
    [ owner  |-> p,
      peerId |-> peerId,
      aesKey |-> key,            \* closure variable and conn.aesKey
      bound  |-> FALSE,          \* callbacks attached, conn returned
      sig    |-> "stable",       \* signalingState
      local  |-> Null,           \* localDescription: pending, else current
      curLocal |-> Null,         \* currentLocalDescription
      remote |-> Null,
      cands  |-> {},             \* candidates accepted by addIceCandidate
      ice    |-> 0,              \* candidates reported to onicecandidate
      chan   |-> "connecting",   \* conn.channel.readyState
      link   |-> 0,              \* the remote transport of the open channel
      inbox  |-> << >> ]         \* payloads awaiting channel.onmessage

\* transports t and u have applied each other's offer and answer
Negotiated(t, u) ==
    /\ peers[t].sig = "stable" /\ peers[u].sig = "stable"
    /\ peers[t].local = Offer(t)
    /\ peers[u].remote = Offer(t)
    /\ peers[u].local = Answer(u, Offer(t))
    /\ peers[t].remote = Answer(u, Offer(t))

Paired(t, u) == Negotiated(t, u) \/ Negotiated(u, t)

(***************************************************************************)
(* Signaling channel                                                       *)
(***************************************************************************)
Has(d, f) == f \in DOMAIN d

\* sendSignal that spreads the key pair into the event
sendSignal_Leak(p, targetId, payload) ==
    IF room[p] = NoRoom THEN medium
    ELSE medium \cup
         { [ key  |-> Cardinality(medium) + 1,
             room |-> room[p],
             box  |-> targetId,
             data |-> [ from |-> myId[p], ts |-> Cardinality(medium) + 1,
                        priv |-> myKeyPair[p].priv ]
                      @@ payload ] }

\* sendSignal: the medium after the call
sendSignal(p, targetId, payload) ==
    IF room[p] = NoRoom THEN medium
    ELSE medium \cup
         { [ key  |-> Cardinality(medium) + 1,
             room |-> room[p],
             box  |-> targetId,
             data |-> [ from |-> myId[p], ts |-> Cardinality(medium) + 1 ]
                      @@ payload ] }

\* the text 'maxkorotzi'
DefaultSalt == << 38, 26, 49, 36, 40, 43, 40, 45, 51, 34 >>

\* createConnection up to its first await: the session key it will hold
\* (Null without a peer key, Throw when deriveAesKey throws)
ConnKey(p, peerPubB64) ==
    LET roomSalt == IF trim(roomInput[p]) = << >> THEN DefaultSalt
                    ELSE trim(roomInput[p])
    IN IF peerPubB64 = << >> THEN Null
       ELSE deriveKey(myKeyPair[p].priv, peerPubB64, roomSalt)

Frame(p, kind, data, peerId, conn, pc) ==
    [ p |-> p, epoch |-> joins[p], kind |-> kind, data |-> data,
      peerId |-> peerId, conn |-> conn, pc |-> pc, answer |-> Null ]

\* lines 163-180: the first transport call of handleSignal for data on conn
Dispatch(p, data, conn) ==
    IF data.type = "offer"
    THEN { Frame(p, "signal", data, data.from, conn, "setRemoteOffer") }
    ELSE IF data.type = "answer"
    THEN { Frame(p, "signal", data, data.from, conn, "setRemoteAnswer") }
    ELSE IF data.type = "ice" /\ Has(data, "candidate")
    THEN { Frame(p, "signal", data, data.from, conn, "addIceCandidate") }
    ELSE {}

\* fromId === myId
IsSelf_Never(p, fromId) == FALSE

IsSelf(p, fromId) == fromId = myId[p]

\* handleSignal without the test of the sender
handleSignal_NoFromCheck(p, data) ==
    LET d == IF Has(data, "from") THEN data ELSE [ from |-> << >> ] @@ data IN
    IF IsSelf(p, d.from)
    THEN UNCHANGED << connections, peers, tasks >>
    ELSE IF MapHas(connections[p], d.from)
    THEN /\ tasks' = tasks \cup Dispatch(p, d, MapGet(connections[p], d.from))
         /\ UNCHANGED << connections, peers >>
    ELSE LET key == ConnKey(p, IF Has(d, "pub") THEN d.pub ELSE << >>)
         IN /\ peers' = Append(peers, NewPeer(p, d.from, key))
            /\ tasks' = IF key = Throw THEN tasks
                        ELSE tasks \cup { Frame(p, "signal", d, d.from,
                                                Len(peers) + 1, "create") }
            /\ UNCHANGED connections

\* handleSignal that goes on after createConnection has thrown
handleSignal_NoAbort(p, data) ==
    IF ~Has(data, "from") \/ data.from = << >> \/ IsSelf(p, data.from)
    THEN UNCHANGED << connections, peers, tasks >>
    ELSE IF MapHas(connections[p], data.from)
    THEN /\ tasks' = tasks \cup
                     Dispatch(p, data, MapGet(connections[p], data.from))
         /\ UNCHANGED << connections, peers >>
    ELSE LET key == ConnKey(p, IF Has(data, "pub") THEN data.pub ELSE << >>)
         IN /\ peers' = Append(peers, NewPeer(p, data.from, key))
            /\ tasks' = tasks \cup { Frame(p, "signal", data, data.from,
                                            Len(peers) + 1, "create") }
            /\ UNCHANGED connections

\* handleSignal(data) up to its first await
handleSignal(p, data) ==
    IF ~Has(data, "from") \/ data.from = << >> \/ IsSelf(p, data.from)
    THEN UNCHANGED << connections, peers, tasks >>
    ELSE IF MapHas(connections[p], data.from)
    THEN /\ tasks' = tasks \cup
                     Dispatch(p, data, MapGet(connections[p], data.from))
         /\ UNCHANGED << connections, peers >>
    ELSE LET key == ConnKey(p, IF Has(data, "pub") THEN data.pub ELSE << >>)
         IN /\ peers' = Append(peers, NewPeer(p, data.from, key))
            /\ tasks' = IF key = Throw THEN tasks
                        ELSE tasks \cup { Frame(p, "signal", data, data.from,
                                                Len(peers) + 1, "create") }
            /\ UNCHANGED connections

\* signalSeen.has(key)
Seen_Never(p, key) == FALSE

Seen(p, key) == key \in signalSeen[p]

\* the callback of room.get('signals').get(myId).map().on (lines 148-152)
OnSignal(p, data, key) ==
    IF data = Null \/ ~Has(data, "type") \/ data.type = ""
    THEN UNCHANGED << signalSeen, handled, dupDropped, connections, peers, tasks >>
    ELSE IF Seen(p, key)
    THEN /\ dupDropped' = [dupDropped EXCEPT ![p] = TRUE]
         /\ UNCHANGED << signalSeen, handled, connections, peers, tasks >>
    ELSE /\ signalSeen' = [signalSeen EXCEPT ![p] = @ \cup { key }]
         /\ handled' = [handled EXCEPT ![p] =
                          (key :> (IF key \in DOMAIN @ THEN @[key] ELSE 0) + 1)
                          @@ @]
         /\ handleSignal(p, data)
         /\ UNCHANGED dupDropped

\* the medium delivers an item to a live listener of party p
Deliver(p, item) ==
    /\ item \in medium
    /\ [ room |-> item.room, box |-> item.box ] \in subs[p]
    /\ OnSignal(p, item.data, item.key)
    /\ UNCHANGED << idVars, uiVars, room, subs, medium, sent,
                    joins, connects, sends, injected, idOps >>

\* the user edits the room field (line 11); no handler of the page runs,
\* the text is read when a session is created (line 198) and at the
\* join-room click (line 302)
editRoomId(p, text) ==
    /\ text # roomInput[p]
    /\ roomInput' = [roomInput EXCEPT ![p] = text]
    /\ UNCHANGED << idVars, messageInput, lastAlert, messages, sigVars,
                    joins, handled, dupDropped, connects, sends, injected, idOps >>

\* join-room click (lines 301-310) with listenSignals and resetSignals
JoinRoom(p, text) ==
    /\ booted[p]
    /\ joins[p] < MaxJoins
    /\ joins' = [joins EXCEPT ![p] = @ + 1]
    /\ roomInput' = [roomInput EXCEPT ![p] = text]
    /\ IF trim(text) = << >>
       THEN /\ lastAlert' = [lastAlert EXCEPT ![p] = "EnterRoomId"]
            /\ UNCHANGED << room, subs, signalSeen, handled, dupDropped >>
       ELSE /\ dupDropped' = [dupDropped EXCEPT ![p] = FALSE]
            /\ room' = [room EXCEPT ![p] = trim(text)]
            /\ signalSeen' = [signalSeen EXCEPT ![p] = {}]
            /\ handled' = [handled EXCEPT ![p] = << >>]
            /\ subs' = [subs EXCEPT ![p] =
                          @ \cup { [ room |-> trim(text), box |-> myId[p] ] }]
            /\ UNCHANGED lastAlert
    /\ UNCHANGED << idVars, messageInput, messages, connections, peers, medium,
                    sent, tasks, connects, sends, injected, idOps >>

(***************************************************************************)
(* Connection manager                                                      *)
(***************************************************************************)
SetPeer(t, rec) == peers' = [peers EXCEPT ![t] = rec]

Finish(f) == tasks' = tasks \ { f }
Goto(f, pc) == tasks' = (tasks \ { f }) \cup { [f EXCEPT !.pc = pc] }

\* connect-to-peer click: startConnection up to its first await
StartConnection(p, peerIdText, peerPubText) ==
    LET peerId == trim(peerIdText)
        peerPubB64 == trim(peerPubText)
    IN
    /\ booted[p]
    /\ connects[p] < MaxConnects
    /\ connects' = [connects EXCEPT ![p] = @ + 1]
    /\ IF room[p] = NoRoom
       THEN \* ensureRoom throws
            UNCHANGED << lastAlert, peers, tasks >>
       ELSE IF peerId = << >> \/ peerPubB64 = << >>
       THEN /\ lastAlert' = [lastAlert EXCEPT ![p] = "NeedIdAndKey"]
            /\ UNCHANGED << peers, tasks >>
       ELSE LET key == ConnKey(p, peerPubB64)
            IN /\ peers' = Append(peers, NewPeer(p, peerId, key))
               /\ tasks' = IF key = Throw THEN tasks
                           ELSE tasks \cup { Frame(p, "start", Null, peerId,
                                                   Len(peers) + 1, "create") }
               /\ UNCHANGED lastAlert
    /\ UNCHANGED << idVars, roomInput, messageInput, messages, room, subs,
                    signalSeen, connections, medium, sent,
                    joins, handled, dupDropped, sends, injected, idOps >>

\* createConnection resumes after its await (lines 203-230), returns conn,
\* and the caller stores it (line 161 or 242) and makes its next call
CreateDone(f) ==
    /\ f \in tasks /\ f.pc = "create"
    /\ SetPeer(f.conn, [peers[f.conn] EXCEPT !.bound = TRUE])
    /\ connections' = [connections EXCEPT ![f.p] = MapSet(@, f.peerId, f.conn)]
    /\ tasks' = (tasks \ { f }) \cup
                (IF f.kind = "start"
                 THEN { [f EXCEPT !.pc = "setLocalOffer"] }
                 ELSE Dispatch(f.p, f.data, f.conn))
    /\ UNCHANGED << idVars, uiVars, room, subs, signalSeen, medium, sent,
                    histVars >>

\* startConnection: createOffer, setLocalDescription(offer) resolve and the
\* offer is published (lines 243-246)
SetLocalOffer(f) ==
    /\ f \in tasks /\ f.pc = "setLocalOffer"
    /\ Finish(f)
    /\ IF peers[f.conn].sig \in { "stable", "have-local-offer" }
       THEN /\ SetPeer(f.conn, [peers[f.conn] EXCEPT
                                  !.sig = "have-local-offer",
                                  !.local = Offer(f.conn)])
            /\ medium' = sendSignal(f.p, f.peerId,
                                    [ type |-> "offer", sdp |-> Offer(f.conn),
                                      pub |-> myPubB64[f.p] ])
       ELSE \* InvalidStateError
            UNCHANGED << peers, medium >>
    /\ UNCHANGED << idVars, roomInput, messageInput, lastAlert, messages, room, subs,
                    signalSeen, connections, sent, histVars >>

\* setRemoteDescription that takes any description for an offer
SetRemoteOffer_AnyKind(f) ==
    /\ f \in tasks /\ f.pc = "setRemoteOffer"
    /\ IF Has(f.data, "sdp")
       THEN /\ SetPeer(f.conn, [peers[f.conn] EXCEPT
                                  !.sig = "have-remote-offer",
                                  !.remote = f.data.sdp,
                                  !.local = IF peers[f.conn].sig = "have-local-offer"
                                            THEN peers[f.conn].curLocal ELSE @])
            /\ Goto(f, "createAnswer")
       ELSE /\ Finish(f)
            /\ UNCHANGED peers
    /\ UNCHANGED << idVars, uiVars, room, subs, signalSeen, connections,
                    medium, sent, histVars >>

\* handleSignal: setRemoteDescription(offer) resolves (line 164)
SetRemoteOffer(f) ==
    /\ f \in tasks /\ f.pc = "setRemoteOffer"
    /\ IF Has(f.data, "sdp") /\ f.data.sdp.kind = "offer"
       THEN /\ SetPeer(f.conn, [peers[f.conn] EXCEPT
                                  !.sig = "have-remote-offer",
                                  !.remote = f.data.sdp,
                                  \* a pending local offer is rolled back
                                  !.local = IF peers[f.conn].sig = "have-local-offer"
                                            THEN peers[f.conn].curLocal ELSE @])
            /\ Goto(f, "createAnswer")
       ELSE /\ Finish(f)
            /\ UNCHANGED peers
    /\ UNCHANGED << idVars, uiVars, room, subs, signalSeen, connections,
                    medium, sent, histVars >>

\* handleSignal: createAnswer resolves (line 165)
CreateAnswer(f) ==
    /\ f \in tasks /\ f.pc = "createAnswer"
    /\ IF peers[f.conn].sig = "have-remote-offer"
       THEN tasks' = (tasks \ { f }) \cup
                     { [f EXCEPT !.pc = "setLocalAnswer",
                                 !.answer = Answer(f.conn, peers[f.conn].remote)] }
       ELSE Finish(f)
    /\ UNCHANGED << idVars, uiVars, room, subs, signalSeen, connections,
                    peers, medium, sent, histVars >>

\* handleSignal: setLocalDescription(answer) resolves and the answer is
\* published (lines 166-172)
SetLocalAnswer(f) ==
    /\ f \in tasks /\ f.pc = "setLocalAnswer"
    /\ Finish(f)
    /\ IF peers[f.conn].sig = "have-remote-offer"
       THEN /\ SetPeer(f.conn, [peers[f.conn] EXCEPT
                                  !.sig = "stable", !.local = f.answer,
                                  !.curLocal = f.answer])
            /\ medium' = sendSignal(f.p, f.peerId,
                                    [ type |-> "answer", sdp |-> f.answer,
                                      pub |-> myPubB64[f.p] ])
       ELSE UNCHANGED << peers, medium >>
    /\ UNCHANGED << idVars, roomInput, messageInput, lastAlert, messages, room, subs,
                    signalSeen, connections, sent, histVars >>

\* handleSignal: setRemoteDescription(answer) resolves (lines 175-176)
SetRemoteAnswer(f) ==
    /\ f \in tasks /\ f.pc = "setRemoteAnswer"
    /\ Finish(f)
    /\ IF /\ peers[f.conn].sig = "have-local-offer"
          /\ Has(f.data, "sdp") /\ f.data.sdp.kind = "answer"
       THEN /\ SetPeer(f.conn, [peers[f.conn] EXCEPT
                                  !.sig = "stable", !.remote = f.data.sdp,
                                  !.curLocal = peers[f.conn].local])
       ELSE UNCHANGED peers
    /\ UNCHANGED << idVars, roomInput, messageInput, lastAlert, messages, room, subs,
                    signalSeen, connections, medium, sent, histVars >>

\* handleSignal: addIceCandidate resolves (line 179)
AddIceCandidate(f) ==
    /\ f \in tasks /\ f.pc = "addIceCandidate"
    /\ Finish(f)
    /\ IF peers[f.conn].remote # Null
       THEN SetPeer(f.conn, [peers[f.conn] EXCEPT
                               !.cands = @ \cup { f.data.candidate }])
       ELSE UNCHANGED peers
    /\ UNCHANGED << idVars, uiVars, room, subs, signalSeen, connections,
                    medium, sent, histVars >>

\* peer.onicecandidate (lines 208-212)
OnIceCandidate(t) ==
    /\ t \in 1..Len(peers)
    /\ peers[t].bound /\ peers[t].local # Null /\ peers[t].ice < MaxIce
    /\ SetPeer(t, [peers[t] EXCEPT !.ice = @ + 1])
    /\ medium' = sendSignal(peers[t].owner, peers[t].peerId,
                            [ type |-> "ice",
                              candidate |-> [ by |-> t, n |-> peers[t].ice + 1 ] ])
    /\ UNCHANGED << idVars, uiVars, room, subs, signalSeen, connections,
                    sent, tasks, histVars >>

\* channel.onopen of conn.channel (lines 215-217)
OnOpen(t, u) ==
    /\ t \in 1..Len(peers) /\ u \in 1..Len(peers)
    /\ peers[t].bound /\ peers[t].chan = "connecting"
    /\ Paired(t, u)
    /\ SetPeer(t, [peers[t] EXCEPT !.chan = "open", !.link = u])
    /\ UNCHANGED << idVars, roomInput, messageInput, lastAlert, messages, room, subs,
                    signalSeen, connections, medium, sent, tasks, histVars >>

(***************************************************************************)
(* Message traffic                                                         *)
(***************************************************************************)
\* addMessage(author, text): the author is the local user or a peer id
Shown(mine, peerId, text) == [ mine |-> mine, peer |-> peerId, text |-> text ]

JsonStringify(payload) == [ json |-> payload ]
JsonParse(wire) == wire.json

\* [...connections.values()].find(c => c.channel.readyState === 'open')
FindOpen(m) ==
    IF \E i \in 1..Len(m) : peers[m[i].conn].chan = "open"
    THEN m[CHOOSE i \in 1..Len(m) :
             /\ peers[m[i].conn].chan = "open"
             /\ \A j \in 1..(i - 1) : peers[m[j].conn].chan # "open"].conn
    ELSE 0

\* send-text click: sendMessage up to its await (lines 249-257); text is
\* what the message field holds
sendMessage(p, text) ==
    /\ booted[p]
    /\ sends[p] < MaxSends
    /\ sends' = [sends EXCEPT ![p] = @ + 1]
    /\ messageInput' = [messageInput EXCEPT ![p] = text]
    /\ LET active == FindOpen(connections[p]) IN
       IF trim(text) = << >>
       THEN UNCHANGED << lastAlert, tasks >>
       ELSE IF active = 0 \/ peers[active].aesKey = Null
       THEN /\ lastAlert' = [lastAlert EXCEPT ![p] = "NoActiveChannel"]
            /\ UNCHANGED tasks
       ELSE /\ tasks' = tasks \cup
                         { Frame(p, "send",
                                 [ text |-> trim(text), iv |-> << p, sends[p] + 1 >> ],
                                 peers[active].peerId, active, "encrypt") }
            /\ UNCHANGED lastAlert
    /\ UNCHANGED << idVars, roomInput, messages, room, subs, signalSeen,
                    connections, peers, medium, sent,
                    joins, handled, dupDropped, connects, injected, idOps >>

\* sendMessage: encryptMessage resolves, the payload is sent on the chosen
\* session, the text is shown and the field is cleared (lines 257-260)
SendEncrypted(f) ==
    /\ f \in tasks /\ f.pc = "encrypt"
    /\ Finish(f)
    /\ LET payload == encryptMessage(peers[f.conn].aesKey, f.data.iv, f.data.text)
           wire == JsonStringify(payload)
           to == peers[f.conn].link
       IN /\ peers' = [peers EXCEPT ![to].inbox = Append(@, wire)]
          /\ sent' = sent \cup { [ by |-> f.conn, wire |-> wire ] }
          /\ messages' = [messages EXCEPT ![f.p] =
                            Append(@, Shown(TRUE, << >>, f.data.text))]
          /\ messageInput' = [messageInput EXCEPT ![f.p] = << >>]
    /\ UNCHANGED << idVars, roomInput, lastAlert, room, subs, signalSeen,
                    connections, medium, histVars >>

\* the text shown in place of a message that cannot be read
KeyNotReady == << -4 >>

\* channel.onmessage that keeps a payload it cannot read for later
OnMessage_Buffering(t) ==
    /\ t \in 1..Len(peers)
    /\ peers[t].bound /\ peers[t].inbox # << >>
    /\ IF peers[t].aesKey = Null
       THEN /\ messages' = [messages EXCEPT ![peers[t].owner] =
                     Append(@, Shown(FALSE, peers[t].peerId, << -4 >>))]
            /\ UNCHANGED << peers, tasks >>
       ELSE /\ SetPeer(t, [peers[t] EXCEPT !.inbox = Tail(@)])
            /\ tasks' = tasks \cup
                         { Frame(peers[t].owner, "recv",
                                 [ payload |-> JsonParse(Head(peers[t].inbox)) ],
                                 peers[t].peerId, t, "decrypt") }
            /\ UNCHANGED messages
    /\ UNCHANGED << idVars, roomInput, messageInput, lastAlert, room, subs,
                    signalSeen, connections, medium, sent, histVars >>

\* channel.onmessage up to its await (lines 218-224)
OnMessage(t) ==
    /\ t \in 1..Len(peers)
    /\ peers[t].bound /\ peers[t].inbox # << >>
    /\ SetPeer(t, [peers[t] EXCEPT !.inbox = Tail(@)])
    /\ IF peers[t].aesKey = Null
       THEN /\ messages' = [messages EXCEPT ![peers[t].owner] =
                     Append(@, Shown(FALSE, peers[t].peerId, KeyNotReady))]
            /\ UNCHANGED tasks
       ELSE /\ tasks' = tasks \cup
                         { Frame(peers[t].owner, "recv",
                                 [ payload |-> JsonParse(Head(peers[t].inbox)) ],
                                 peers[t].peerId, t, "decrypt") }
            /\ UNCHANGED messages
    /\ UNCHANGED << idVars, roomInput, messageInput, lastAlert, room, subs,
                    signalSeen, connections, medium, sent, histVars >>

\* channel.onmessage: decryptMessage resolves and the text is shown
\* (lines 224-225)
ShowDecrypted(f) ==
    /\ f \in tasks /\ f.pc = "decrypt"
    /\ Finish(f)
    /\ LET text == decryptMessage(peers[f.conn].aesKey, f.data.payload) IN
       IF text = ThrowText
       THEN UNCHANGED messages
       ELSE messages' = [messages EXCEPT ![f.p] =
                           Append(@, Shown(FALSE, f.peerId, text))]
    /\ UNCHANGED << idVars, roomInput, messageInput, lastAlert, room, subs,
                    signalSeen, connections, peers, medium, sent, histVars >>

(***************************************************************************)
(* Outsiders: anyone who knows the room can write to any mailbox           *)
(***************************************************************************)
StrangerPair == KeyPair(PrivBytes(99))
StrangerId == shortId(StrangerPair.pub)

Body(type) ==
    IF type = "offer"
    THEN [ type |-> "offer", sdp |-> Offer(0), pub |-> toB64(StrangerPair.pub) ]
    ELSE IF type = "answer"
    THEN [ type |-> "answer", sdp |-> Answer(0, Offer(0)),
           pub |-> toB64(StrangerPair.pub) ]
    ELSE [ type |-> "ice", candidate |-> [ by |-> 0, n |-> 1 ] ]

\* what an outsider writes to the mailbox of party p
InjectData(p) ==
    { Null, [ from |-> StrangerId ], Body("offer") }
    \cup { [ from |-> StrangerId ] @@ Body(t) : t \in { "offer", "answer", "ice" } }
    \cup { [ from |-> myId[p] ] @@ Body(t) : t \in { "offer", "answer", "ice" } }

Inject(p, data) ==
    /\ booted[p] /\ room[p] # NoRoom
    /\ injected < MaxInject
    /\ injected' = injected + 1
    /\ medium' = medium \cup
                 { [ key |-> Cardinality(medium) + 1, room |-> room[p],
                     box |-> myId[p], data |-> data ] }
    /\ UNCHANGED << idVars, uiVars, room, subs, signalSeen, connections,
                    peers, sent, tasks, joins, handled, dupDropped, connects, sends,
                    idOps >>

(***************************************************************************)
(* Specifications                                                          *)
(***************************************************************************)
\* seeds typed into the import field
SeedInputs ==
    { << >>,                          \* empty field
      << BadChar, 0, 0, 0 >>,         \* not base64
      << 0 >>,                        \* not base64: one character
      toB64(Fill(PrivLen - 1, 1)),    \* 31 bytes
      toB64(Fill(PrivLen + 1, 1)),    \* 33 bytes
      toB64(Fill(PrivLen, 0)),        \* the key 0
      toB64(Fill(PrivLen, 255)),      \* a key above the curve order
      toB64(PrivBytes(5)),
      toB64(StrangerPair.priv),
      << Blank >>,                    \* white space only
      Padded(toB64(PrivBytes(5))),    \* a seed with white space around it
      Padded(toB64(Fill(PrivLen - 1, 1))) }

\* localStorage before the page is opened: empty, or a pair an earlier run
\* of the program stored
InitStorage(p) == { EmptyStorage } \cup { Stored(KeyPair(k)) : k \in KeyPool(p) }

\* everything but the identity store, before any user action
InitRest ==
    /\ clipboard = [p \in Party |-> NullText]
    /\ roomInput = [p \in Party |-> << >>]
    /\ messageInput = [p \in Party |-> << >>]
    /\ lastAlert = [p \in Party |-> ""]
    /\ messages = [p \in Party |-> << >>]
    /\ room = [p \in Party |-> NoRoom]
    /\ subs = [p \in Party |-> {}]
    /\ signalSeen = [p \in Party |-> {}]
    /\ connections = [p \in Party |-> << >>]
    /\ peers = << >>
    /\ medium = {}
    /\ sent = {}
    /\ tasks = {}
    /\ joins = [p \in Party |-> 0]
    /\ handled = [p \in Party |-> << >>]
    /\ dupDropped = [p \in Party |-> FALSE]
    /\ connects = [p \in Party |-> 0]
    /\ sends = [p \in Party |-> 0]
    /\ injected = 0
    /\ idOps = [p \in Party |-> 0]

\* the page is being opened: init() has not run yet
InitPage ==
    /\ booted = [p \in Party |-> FALSE]
    /\ storage \in [Party -> UNION { InitStorage(p) : p \in Party }]
    /\ \A p \in Party : storage[p] \in InitStorage(p)
    /\ myKeyPair = [p \in Party |-> Null]
    /\ myId = [p \in Party |-> << >>]
    /\ myPubB64 = [p \in Party |-> << >>]
    /\ InitRest

\* init() has run on every page, each with a freshly generated key pair
Init ==
    /\ booted = [p \in Party |-> TRUE]
    /\ LET k == [p \in Party |-> PrivBytes(16 * PartyNo(p) + 1)] IN
        /\ storage = [p \in Party |-> Stored(KeyPair(k[p]))]
        /\ myKeyPair = [p \in Party |-> KeyPair(k[p])]
        /\ myPubB64 = [p \in Party |-> toB64(KeyPair(k[p]).pub)]
        /\ myId = [p \in Party |-> shortId(KeyPair(k[p]).pub)]
    /\ InitRest

\* a suspended startConnection or handleSignal resumes
Resume ==
    \/ \E f \in tasks : CreateDone(f)
    \/ \E f \in tasks : SetLocalOffer(f)
    \/ \E f \in tasks : SetRemoteOffer(f)
    \/ \E f \in tasks : CreateAnswer(f)
    \/ \E f \in tasks : SetLocalAnswer(f)
    \/ \E f \in tasks : SetRemoteAnswer(f)

\* candidates are trickled: reported, published and added
Trickle ==
    \/ \E t \in 1..Len(peers) : OnIceCandidate(t)
    \/ \E f \in tasks : AddIceCandidate(f)

\* an open channel: the transport opens it and delivers what was sent
Channel ==
    \/ \E t, u \in 1..Len(peers) : OnOpen(t, u)
    \/ \E t \in 1..Len(peers) : OnMessage(t)
    \/ \E f \in tasks : ShowDecrypted(f)

\* A and B in one room over an honest medium: each may join, connect to the
\* other with the id and key the other shows, and send a text; A may
\* change its room field once it has joined and before the first session
\* is created; candidates
\* are not trickled
Other(p) == IF p = "A" THEN "B" ELSE "A"

Next ==
    \/ \E p \in { "A", "B" } : room[p] = NoRoom /\ JoinRoom(p, Room1)
    \/ room["A"] # NoRoom /\ peers = << >> /\ editRoomId("A", Room2)
    \/ \E p \in { "A", "B" } :
           StartConnection(p, myId[Other(p)], myPubB64[Other(p)])
    \/ \E p \in { "A", "B" } : sendMessage(p, Hi)
    \/ \E f \in tasks : SendEncrypted(f)
    \/ \E p \in Party : \E item \in medium : Deliver(p, item)
    \/ Resume
    \/ Channel

Spec == Init /\ [][Next]_vars

\* the two-party scenario: A and B join room r1, B connects to A with the
\* key A shows, candidates are trickled, texts are sent
NextScenario ==
    \/ \E p \in { "A", "B" } : room[p] = NoRoom /\ JoinRoom(p, Room1)
    \/ \E text \in RoomEdits : editRoomId("A", text)
    \/ StartConnection("B", myId["A"], myPubB64["A"])
    \/ \E p \in { "A", "B" } : sendMessage(p, Hi)
    \/ \E f \in tasks : SendEncrypted(f)
    \/ \E p \in Party : \E item \in medium : Deliver(p, item)
    \/ Resume
    \/ Trickle
    \/ Channel

SpecScenario == Init /\ [][NextScenario]_vars

\* one party on a medium outsiders write to: A joins and rejoins rooms,
\* connects to the outsider, and handles what is delivered
NextOpen ==
    \/ \E text \in { Room1, Room2 } : JoinRoom("A", text)
    \/ peers = << >> /\ \E text \in RoomEdits : editRoomId("A", text)
    \/ \E data \in InjectData("A") : Inject("A", data)
    \/ StartConnection("A", StrangerId, toB64(StrangerPair.pub))
    \/ \E item \in medium : Deliver("A", item)
    \/ Resume
    \/ \E f \in tasks : AddIceCandidate(f)

SpecOpen == Init /\ [][NextOpen]_vars

\* three parties in one room: B connects to A and trickles a candidate;
\* once a channel of A is open C connects to A; A sends a text
NextThree ==
    \/ \E p \in Party : room[p] = NoRoom /\ JoinRoom(p, Room1)
    \/ peers = << >> /\ \E text \in RoomEdits : editRoomId("A", text)
    \/ StartConnection("B", myId["A"], myPubB64["A"])
    \/ /\ \E t \in 1..Len(peers) : peers[t].owner = "A" /\ peers[t].chan = "open"
       /\ StartConnection("C", myId["A"], myPubB64["A"])
    \/ \E text \in MessageTexts : sendMessage("A", text)
    \/ \E f \in tasks : SendEncrypted(f)
    \/ \E p \in Party : \E item \in medium : Deliver(p, item)
    \/ Resume
    \/ \E t \in 1..Len(peers) : peers[t].owner = "B" /\ OnIceCandidate(t)
    \/ \E f \in tasks : AddIceCandidate(f)
    \/ \E t, u \in 1..Len(peers) : OnOpen(t, u)

SpecThree == Init /\ [][NextThree]_vars

\* peer keys that deriveAesKey rejects: not base64, and not a point
BadPubs == { << BadChar, 0, 0, 0 >>, toB64(Fill(PubLen, 0)) }

\* the key of the outsider as it can be typed in: the compressed encoding
\* with white space around it, the uncompressed encoding, and the encoding
\* of the inverse point
GoodPubs ==
    { Padded(toB64(StrangerPair.pub)),
      toB64(Uncompressed(FromBytes(StrangerPair.pub))),
      toB64(Point(GroupQ - FromBytes(StrangerPair.pub))) }

\* events of the outsider that carry such a key, and its well-formed offer
BadKeyData ==
    { [ from |-> StrangerId ] @@ [ Body(t) EXCEPT !.pub = pub ] :
        t \in { "offer", "answer" }, pub \in BadPubs }
    \cup { [ from |-> StrangerId ] @@ Body("offer") }

\* one party and peer keys that cannot be used: A joins, is sent events
\* with a malformed key, and connects with a malformed key typed in
NextBadKey ==
    \/ \E text \in { Padded(Room1), << Blank, Blank >> } :
           room["A"] = NoRoom /\ JoinRoom("A", text)
    \/ \E text \in RoomEdits : editRoomId("A", text)
    \/ \E data \in BadKeyData : Inject("A", data)
    \/ \E pub \in BadPubs \cup GoodPubs :
           StartConnection("A", Padded(StrangerId), pub)
    \/ \E item \in medium : Deliver("A", item)
    \/ Resume

SpecBadKey == Init /\ [][NextBadKey]_vars

\* what an outsider writes that is no signaling event: nothing, an event
\* without type or with an empty type, events without sender or with an
\* empty sender
MalformedData ==
    { Null, [ from |-> StrangerId ], [ from |-> StrangerId, type |-> "" ] }
    \cup { Body(t) : t \in { "offer", "answer", "ice" } }
    \cup { [ from |-> << >> ] @@ Body("offer") }

\* A and B in one room with an outsider writing malformed items to A's
\* mailbox while B connects to A
NextMalformed ==
    \/ \E p \in { "A", "B" } : room[p] = NoRoom /\ JoinRoom(p, Room1)
    \/ \E text \in RoomEdits : editRoomId("A", text)
    \/ \E data \in MalformedData : Inject("A", data)
    \/ StartConnection("B", myId["A"], myPubB64["A"])
    \/ \E p \in Party : \E item \in medium : Deliver(p, item)
    \/ Resume

SpecMalformed == Init /\ [][NextMalformed]_vars

\* offers of the outsider: well-formed, without description, and with a
\* description that is no offer
OfferData ==
    { [ from |-> StrangerId ] @@ Body("offer"),
      [ from |-> StrangerId, type |-> "offer", pub |-> toB64(StrangerPair.pub) ],
      [ from |-> StrangerId ] @@ [ Body("offer") EXCEPT !.sdp = Answer(0, Offer(0)) ] }

\* A and B in one room: B connects to A, the outsider sends A an offer,
\* every item may be delivered again and again
NextAnswer ==
    \/ \E p \in { "A", "B" } : room[p] = NoRoom /\ JoinRoom(p, Room1)
    \/ \E text \in RoomEdits : editRoomId("A", text)
    \/ \E data \in OfferData : Inject("A", data)
    \/ StartConnection("B", myId["A"], myPubB64["A"])
    \/ \E p \in Party : \E item \in medium : Deliver(p, item)
    \/ Resume

SpecAnswer == Init /\ [][NextAnswer]_vars

\* A and B in one room while A also uses its identity controls: B connects
\* to A, texts are sent, A exports, imports and regenerates; A may change
\* its room field once it has joined and before the first session is
\* created
NextMixed ==
    \/ \E p \in { "A", "B" } : room[p] = NoRoom /\ JoinRoom(p, Room1)
    \/ room["A"] # NoRoom /\ peers = << >> /\ editRoomId("A", Room2)
    \/ StartConnection("B", myId["A"], myPubB64["A"])
    \/ \E p \in { "A", "B" } : sendMessage(p, Hi)
    \/ \E f \in tasks : SendEncrypted(f)
    \/ copyId("A")
    \/ exportSeed("A")
    \/ \E seed \in { toB64(PrivBytes(5)), << 0 >> } : importSeed("A", seed)
    \/ regenerate("A")
    \/ \E p \in Party : \E item \in medium : Deliver(p, item)
    \/ Resume
    \/ Channel

SpecMixed == Init /\ [][NextMixed]_vars

\* the identity store of one page
NextIdentity ==
    \/ Boot("A")
    \/ copyId("A")
    \/ exportSeed("A")
    \/ \E seed \in SeedInputs : importSeed("A", seed)
    \/ regenerate("A")

SpecIdentity == InitPage /\ [][NextIdentity]_vars

(***************************************************************************)
(* Claims                                                                  *)
(***************************************************************************)

\* C1: between two join-room actions handleSignal is called at most once
\* for every event key, however often the medium delivers the item, and
\* every join-room action leaves the dedup set empty.
C1_AtMostOncePerEpoch ==
    /\ [](\A p \in Party : \A k \in DOMAIN handled[p] : handled[p][k] <= 1)
    /\ [][\A p \in Party :
            (joins'[p] > joins[p] /\ trim(roomInput'[p]) # << >>)
                => signalSeen'[p] = {}]_vars

\* an item was handled in the second epoch of a party and delivered again
C1_Witness ==
    \E p \in Party :
        /\ joins[p] = 2 /\ dupDropped[p]
        /\ \E k \in DOMAIN handled[p] : handled[p][k] = 1

\* a well-formed item of the given type from a sender other than the party
WellFormed(p, item, type) ==
    /\ item.data # Null
    /\ Has(item.data, "type") /\ item.data.type = type
    /\ Has(item.data, "from") /\ item.data.from # << >>
    /\ item.data.from # myId[p]

\* C2: an `ice` event whose sender has no session in the registry is
\* dropped: its handling creates no transport, suspends no handler that
\* would register a session or forward the candidate, and leaves the
\* registry without a session for the sender.
C2_IceFromUnknownDropped ==
    [][\A p \in Party : \A item \in medium :
         ( /\ WellFormed(p, item, "ice")
           /\ ~MapHas(connections[p], item.data.from)
           /\ Deliver(p, item) )
         => /\ peers' = peers
            /\ tasks' = tasks
            /\ ~MapHas(connections'[p], item.data.from)]_vars

\* the session party p holds for party q: its transport, 0 if none
Session(p, q) == MapGet(connections[p], myId[q])

\* every session key was derived with the joined room as salt: the room
\* field held the room of the party whenever a session was created
SaltIsRoom ==
    \A t \in 1..Len(peers) :
        peers[t].aesKey \notin { Null, Throw }
        => peers[t].aesKey.salt = room[peers[t].owner]

\* C3 (the safety part of the two-party scenario): once A has published
\* its answer to B, and no room field was changed to another room, A's
\* session for B and B's session for A hold the same, non-null session key.
C3_ScenarioSameKey ==
    \A item \in medium :
        ( /\ item.data.type = "answer"
          /\ item.data.from = myId["A"]
          /\ item.box = myId["B"]
          /\ SaltIsRoom )
        => /\ Session("A", "B") # 0 /\ Session("B", "A") # 0
           /\ peers[Session("A", "B")].aesKey # Null
           /\ peers[Session("A", "B")].aesKey = peers[Session("B", "A")].aesKey

\* every published item has reached its recipient and no handler is
\* suspended
Quiescent ==
    /\ tasks = {}
    /\ \A item \in medium :
         \A p \in Party : item.box = myId[p] => item.key \in signalSeen[p]

\* C4: when A and B have each connected toward the other (each has
\* published its offer in the room they share), then once all
\* their signaling events are handled the pair has converged: A's session
\* for B and B's session for A are Connected to each other, and no other
\* transport of the pair is left.
C4_MutualConnectConverges ==
    ( /\ \A p \in { "A", "B" } :
           \E item \in medium : /\ item.data.type = "offer"
                                 /\ item.data.from = myId[p]
                                 /\ item.box = myId[Other(p)]
      /\ Quiescent )
    => /\ Session("A", "B") # 0 /\ Session("B", "A") # 0
       /\ Paired(Session("A", "B"), Session("B", "A"))
       /\ Len(peers) = 2

\* transport t is held by the registry entry of its owner for its peer
Owned(t) == MapGet(connections[peers[t].owner], peers[t].peerId) = t

\* transport t is held by a suspended createConnection that will return it
BeingCreated(t) == \E f \in tasks : f.conn = t /\ f.pc = "create"

\* C10: every transport created for peer X is the one the registry entry
\* for X holds (or is still being created): no transport is owned by no
\* registry entry.
C10_NoOrphanTransport ==
    \A t \in 1..Len(peers) : Owned(t) \/ BeingCreated(t)

\* C5: nothing written to the medium carries a chat text, a private key or
\* a session key: a published event has only the fields type, sdp,
\* candidate, pub, from and ts, its pub is the public key of its sender,
\* its sdp a session description and its candidate an ICE candidate; and
\* every payload handed to a data channel is the output of encryptMessage
\* under the key of the session it is sent on.
C5_NoSecretOnTheWire ==
    /\ \A item \in medium :
         LET d == item.data IN
         /\ DOMAIN d \subseteq { "type", "sdp", "candidate", "pub", "from", "ts" }
         /\ d.type \in { "offer", "answer", "ice" }
         /\ \E q \in Party :
              /\ d.from = myId[q]
              /\ Has(d, "pub") => /\ d.pub = toB64(myKeyPair[q].pub)
                                  /\ d.pub # toB64(myKeyPair[q].priv)
         /\ Has(d, "sdp") => /\ DOMAIN d.sdp \subseteq { "kind", "by", "to" }
                             /\ d.sdp.by \in 1..Len(peers)
         /\ Has(d, "candidate") => /\ DOMAIN d.candidate = { "by", "n" }
                                   /\ d.candidate.by \in 1..Len(peers)
    /\ \A w \in sent :
         /\ peers[w.by].aesKey \notin { Null, Throw }
         /\ DOMAIN w.wire = { "json" }
         /\ w.wire = JsonStringify(encryptMessage(peers[w.by].aesKey,
                                                  w.wire.json.iv,
                                                  w.wire.json.data.plain))

\* an offer, an answer and a candidate were published and a text was sent
C5_Witness ==
    /\ \A type \in { "offer", "answer", "ice" } :
         \E item \in medium : item.data.type = type
    /\ sent # {}

\* C6: handling a signaling event whose `from` is the local id, of any
\* type, creates no session, changes no session, calls no transport and
\* publishes nothing.
C6_SelfEventIgnored ==
    [][\A p \in Party : \A item \in medium :
         ( /\ item.data # Null
           /\ Has(item.data, "from") /\ item.data.from = myId[p]
           /\ Deliver(p, item) )
         => UNCHANGED << connections, peers, tasks, medium, sent >>]_vars

\* an event carrying the local id was passed to handleSignal
C6_Witness ==
    \E item \in medium :
        /\ item.data # Null /\ Has(item.data, "type")
        /\ item.data.type \in { "offer", "answer", "ice" }
        /\ Has(item.data, "from") /\ item.data.from = myId["A"]
        /\ item.key \in DOMAIN handled["A"]

\* seeds that are not the base64 text of a valid 32-byte private key
MalformedSeeds ==
    { << BadChar, 0, 0, 0 >>, << 0 >>,
      toB64(Fill(PrivLen - 1, 1)), toB64(Fill(PrivLen + 1, 1)),
      toB64(Fill(PrivLen, 0)), toB64(Fill(PrivLen, 255)),
      Padded(toB64(Fill(PrivLen - 1, 1))) }

\* C8: import-identity with a malformed seed reports the invalid seed and
\* leaves the active identity and the two persisted keys as they were.
C8_MalformedImportKeepsIdentity ==
    [][\A p \in Party : \A seed \in MalformedSeeds :
         importSeed(p, seed)
         => /\ UNCHANGED << storage, myKeyPair, myId, myPubB64 >>
            /\ lastAlert'[p] = "InvalidSeed"]_vars

\* a malformed import was refused after an identity had been imported
C8_Witness ==
    /\ lastAlert["A"] = "InvalidSeed"
    /\ myKeyPair["A"] = KeyPair(PrivBytes(5))
    /\ storage["A"] = Stored(KeyPair(PrivBytes(5)))

\* party p holds a session for peerId that has published its offer and has
\* applied no answer yet
Offering(p, peerId) ==
    /\ MapHas(connections[p], peerId)
    /\ peers[MapGet(connections[p], peerId)].sig = "have-local-offer"

\* C9: an `answer` from a peer with no session, or with a session that is
\* not Offering, creates no session, and a remote description is applied
\* only to a session that is Offering.
C9_AnswerNeedsOffering ==
    [][/\ \A p \in Party : \A item \in medium :
            ( /\ WellFormed(p, item, "answer")
              /\ ~Offering(p, item.data.from)
              /\ Deliver(p, item) )
            => /\ peers' = peers
               /\ ~MapHas(connections[p], item.data.from)
                    => \A f \in tasks' : f.peerId # item.data.from
       /\ \A f \in tasks :
            ( SetRemoteAnswer(f) /\ peers'[f.conn].remote # peers[f.conn].remote )
            => Offering(f.p, f.peerId)]_vars

\* the sessions of party p with an open channel and a session key
Qualifying(p) ==
    { t \in 1..Len(peers) :
        /\ \E i \in 1..Len(connections[p]) : connections[p][i].conn = t
        /\ peers[t].chan = "open"
        /\ peers[t].aesKey # Null }

\* C7: a send-text request with a text encrypts on a session with an open
\* channel and a key whenever there is one, and is rejected, encrypting and
\* sending nothing, only when there is none; the encryption it started then
\* sends exactly one message, on that session.
C7_SendUsesQualifyingSession ==
    [][/\ \A p \in Party :
            sendMessage(p, Hi)
            => /\ sent' = sent /\ peers' = peers
               /\ IF Qualifying(p) # {}
                  THEN \E f \in tasks' : /\ tasks' \ tasks = { f }
                                         /\ f.kind = "send"
                                         /\ f.conn \in Qualifying(p)
                  ELSE tasks' = tasks
       /\ \A f \in tasks :
            SendEncrypted(f)
            => \E w \in sent' : /\ sent' \ sent = { w }
                                /\ w.by = f.conn
                                /\ peers'[peers[f.conn].link].inbox =
                                     Append(peers[peers[f.conn].link].inbox, w.wire)]_vars

\* C11: when the derivation of the session key throws because the peer key
\* is malformed, whether typed in for connect-to-peer or carried by an
\* inbound event of a sender without session, the registry is left as it
\* was, no handler is left that would record a session or publish, and
\* nothing is published; no registry entry ever holds a transport whose key
\* derivation failed and no offer or answer of such a transport is published.
C11_BadKeyAborts ==
    /\ [](/\ \A p \in Party : \A i \in 1..Len(connections[p]) :
                peers[connections[p][i].conn].aesKey # Throw
          /\ \A item \in medium :
                ( Has(item.data, "sdp") /\ item.data.sdp.by \in 1..Len(peers) )
                => peers[item.data.sdp.by].aesKey # Throw)
    /\ [][\A p \in Party :
            /\ \A pub \in BadPubs :
                 ( room[p] # NoRoom /\ StartConnection(p, StrangerId, pub) )
                 => UNCHANGED << connections, tasks, medium >>
            /\ \A item \in medium :
                 ( /\ item.data # Null
                   /\ Has(item.data, "type") /\ Has(item.data, "from")
                   /\ Has(item.data, "pub") /\ item.data.pub \in BadPubs
                   /\ ~MapHas(connections[p], item.data.from)
                   /\ Deliver(p, item) )
                 => UNCHANGED << connections, tasks, medium >>]_vars

\* a connect with a malformed key was aborted while the registry held a
\* session for the same peer
C11_Witness ==
    /\ MapHas(connections["A"], StrangerId)
    /\ connects["A"] = 1
    /\ \E t \in 1..Len(peers) :
         /\ peers[t].owner = "A" /\ peers[t].aesKey = Throw
         /\ MapGet(connections["A"], StrangerId) < t

\* the item is empty, or its type or its sender is missing or empty (the
\* guards of lines 149 and 157)
Malformed(item) ==
    \/ item.data = Null
    \/ ~Has(item.data, "type") \/ item.data.type = ""
    \/ ~Has(item.data, "from") \/ item.data.from = << >>

\* C12: the delivery of a malformed item creates and modifies no session,
\* calls no transport, suspends no handler and publishes nothing; of the
\* dedup state it touches at most the key of the item itself, so the
\* handling of every other event is as it would have been.
C12_MalformedDropped ==
    [][\A p \in Party : \A item \in medium :
         ( Malformed(item) /\ Deliver(p, item) )
         => /\ UNCHANGED << connections, peers, tasks, medium, sent, messages >>
            /\ signalSeen'[p] \ signalSeen[p] \subseteq { item.key }
            /\ \A q \in Party \ { p } : signalSeen'[q] = signalSeen[q]]_vars

\* an event without sender was handed to handleSignal and, after it, the
\* offer of B was handled and answered
C12_Witness ==
    \E bad \in medium : \E good \in medium :
        /\ bad.data # Null /\ Has(bad.data, "type") /\ ~Has(bad.data, "from")
        /\ bad.key \in signalSeen["A"]
        /\ good.data # Null /\ Has(good.data, "type") /\ Has(good.data, "from")
        /\ good.data.type = "answer" /\ good.data.from = myId["A"]
        /\ good.key > bad.key

\* the suspended handleSignal calls of party p for events of sender x
Handlers(p, x) ==
    { f \in tasks : f.p = p /\ f.kind = "signal" /\ f.peerId = x }

\* C13: the events of one sender are handled one at a time: at no moment
\* are two handleSignal calls of a party for the same sender suspended, so
\* no two of them have both found no session for the sender.
C13_OneHandlerPerSender ==
    \A p \in Party : \A f \in tasks : \A g \in tasks :
        ( f \in Handlers(p, f.peerId) /\ g \in Handlers(p, f.peerId) )
        => f = g

\* party p has handled the item in its current epoch and no handleSignal
\* call for it is suspended
FullyProcessed(p, item) ==
    /\ item.key \in DOMAIN handled[p]
    /\ \A f \in tasks : ~(f.p = p /\ f.kind = "signal" /\ f.data = item.data)

\* C14: once an offer or answer of sender X that carries X's public key
\* has been fully processed, the session for X holds a session key, in
\* whatever order the events of X were delivered.
C14_KeyKnownAfterOffer ==
    \A p \in Party : \A item \in medium :
        ( /\ \/ WellFormed(p, item, "offer")
             \/ WellFormed(p, item, "answer")
          /\ Has(item.data, "pub") /\ item.data.pub # << >>
          /\ item.box = myId[p]
          /\ FullyProcessed(p, item) )
        => /\ MapHas(connections[p], item.data.from)
           /\ peers[MapGet(connections[p], item.data.from)].aesKey # Null

\* the number of registry entries of party p for peer id x
Entries(p, x) ==
    Cardinality({ i \in 1..Len(connections[p]) : connections[p][i].peerId = x })

\* C15: an attempt that targets an identifier already in the registry
\* replaces the entry by a freshly created session: the handling of an
\* inbound offer from a sender with an entry creates a new transport for
\* it, a connect-to-peer leaves its new transport in the entry, and the
\* registry never holds two entries for one identifier.
C15_AttemptReplacesEntry ==
    /\ [](\A p \in Party : \A i \in 1..Len(connections[p]) :
             Entries(p, connections[p][i].peerId) = 1)
    /\ [][/\ \A p \in Party : \A item \in medium :
              ( /\ WellFormed(p, item, "offer")
                /\ MapHas(connections[p], item.data.from)
                /\ ~Seen(p, item.key)
                /\ Deliver(p, item) )
              => /\ Len(peers') = Len(peers) + 1
                 /\ peers'[Len(peers')].owner = p
                 /\ peers'[Len(peers')].peerId = item.data.from
          /\ \A f \in tasks :
              ( f.kind = "start" /\ CreateDone(f) )
              => MapGet(connections'[f.p], f.peerId) = f.conn]_vars

\* what party p was shown as coming from a peer, what its channels still
\* hold for it or are decrypting, and what was sent to it
ShownFromPeers(p) ==
    Cardinality({ i \in 1..Len(messages[p]) : ~messages[p][i].mine })

Pending(p) ==
    Cardinality({ ti \in (1..Len(peers)) \X (1..MaxSends * 3) :
                    /\ peers[ti[1]].owner = p
                    /\ ti[2] <= Len(peers[ti[1]].inbox) })
    + Cardinality({ f \in tasks : f.p = p /\ f.kind = "recv" })

SentTo(p) ==
    Cardinality({ w \in sent : peers[peers[w.by].link].owner = p })

\* C16: a payload that arrives on a session without key is shown as the
\* placeholder and is gone: the channel keeps no copy of it, and every
\* payload sent to a party accounts for at most one line shown to it, so
\* none is shown as placeholder and later again as text.
C16_NoKeyPayloadDiscarded ==
    /\ [](\A p \in Party : ShownFromPeers(p) + Pending(p) <= SentTo(p))
    /\ [][\A t \in 1..Len(peers) :
            ( peers[t].aesKey = Null /\ OnMessage(t) )
            => /\ messages'[peers[t].owner] =
                    Append(messages[peers[t].owner],
                           Shown(FALSE, peers[t].peerId, KeyNotReady))
               /\ peers'[t].inbox = Tail(peers[t].inbox)
               /\ UNCHANGED << sent, tasks, connections >>]_vars

\* a party was shown the placeholder for a payload its peer had encrypted
C16_Witness ==
    \E p \in Party : \E i \in 1..Len(messages[p]) :
        /\ ~messages[p][i].mine /\ messages[p][i].text = KeyNotReady
        /\ SentTo(p) > 0 /\ Pending(p) = 0

\* the answers party p has published to the mailbox of x
AnswersTo(p, x) ==
    { item \in medium : /\ item.data # Null /\ Has(item.data, "type")
                        /\ item.data.type = "answer"
                        /\ Has(item.data, "from") /\ item.data.from = myId[p]
                        /\ item.box = x }

\* the offers of sender x that party p has handed to handleSignal
OffersFrom(p, x) ==
    { item \in medium : /\ WellFormed(p, item, "offer")
                        /\ item.data.from = x
                        /\ item.box = myId[p]
                        /\ item.key \in DOMAIN handled[p] }

\* C17: the answer to an offer is published by the step that sets the
\* local description, after a remote offer was set and the answer was
\* created on the same transport; that step publishes exactly one
\* `answer` event, to the mailbox of the sender, carrying the local public
\* key.  A party never has published more answers to X than it has handled
\* offers of X, and every answer answers an offer whose description was
\* applied: an offer whose description is rejected gets none.
C17_OneAnswerPerOffer ==
    /\ [](\A p \in Party : \A x \in { myId[q] : q \in Party } \cup { StrangerId } :
             /\ Cardinality(AnswersTo(p, x)) <= Cardinality(OffersFrom(p, x))
             /\ \A a \in AnswersTo(p, x) : \E o \in OffersFrom(p, x) :
                    /\ Has(o.data, "sdp") /\ o.data.sdp.kind = "offer"
                    /\ a.data.sdp.kind = "answer"
                    /\ a.data.sdp.to = o.data.sdp.by)
    /\ [][/\ \A f \in tasks :
              ( SetLocalAnswer(f) /\ medium' # medium )
              => /\ f.data.type = "offer"
                 /\ peers[f.conn].remote # Null
                 /\ peers[f.conn].remote.kind = "offer"
                 /\ f.answer # Null /\ f.answer.by = f.conn
                 /\ peers'[f.conn].local = f.answer
                 /\ \E item \in medium' \ medium :
                      /\ medium' = medium \cup { item }
                      /\ item.box = f.peerId
                      /\ item.data.type = "answer"
                      /\ item.data.sdp = f.answer
                      /\ item.data.pub = myPubB64[f.p]
                      /\ item.data.from = myId[f.p]
          /\ \A p \in Party : \A x \in { myId[q] : q \in Party } \cup { StrangerId } :
              AnswersTo(p, x)' # AnswersTo(p, x)
              => \E f \in tasks : f.p = p /\ f.peerId = x /\ SetLocalAnswer(f)]_vars

\* A has answered the well-formed offer it was sent, after the offer was
\* delivered to it more than once
C17_Witness ==
    \E x \in { myId["B"], StrangerId } :
        /\ Cardinality(AnswersTo("A", x)) = 1
        /\ Cardinality(OffersFrom("A", x)) = 1
        /\ dupDropped["A"]

\* the active identity of party p and its two persisted keys
Identity(p) == << myKeyPair[p], myPubB64[p], myId[p], storage[p] >>

\* C18: the active private key, public key and shortId and the two
\* persisted keys of a party change only in a successful import-identity
\* or a regenerate-identity of that party; join-room, connect-to-peer,
\* send-text, export-identity and the handling of every inbound event
\* leave them as they are.
C18_IdentityFrame ==
    [][/\ \A p \in Party :
            Identity(p)' # Identity(p)
            => \/ regenerate(p)
               \/ \E seed \in SeedInputs :
                     SeedAccepted(trim(seed)) /\ importSeed(p, seed)
       /\ \A p \in Party :
            ( \/ \E text \in RoomTexts : JoinRoom(p, text)
              \/ \E q \in Party : StartConnection(p, myId[q], myPubB64[q])
              \/ \E text \in MessageTexts : sendMessage(p, text)
              \/ \E f \in tasks : f.p = p /\ SendEncrypted(f)
              \/ copyId(p)
              \/ exportSeed(p)
              \/ \E text \in RoomEdits : editRoomId(p, text)
              \/ \E item \in medium : Deliver(p, item)
              \/ \E f \in tasks : f.p = p /\ Resume
              \/ \E t \in 1..Len(peers) : peers[t].owner = p /\ OnMessage(t)
              \/ \E f \in tasks : f.p = p /\ ShowDecrypted(f) )
            => Identity(p)' = Identity(p)]_vars

\* A, whose identity was imported, has exported its seed, answered the
\* offer of B and was shown a line for a payload of B
C18_Witness ==
    /\ myKeyPair["A"] = KeyPair(PrivBytes(5))
    /\ clipboard["A"] = toB64(PrivBytes(5))
    /\ AnswersTo("A", myId["B"]) # {}
    /\ \E i \in 1..Len(messages["A"]) : ~messages["A"][i].mine

\* C19: an item of a room other than the one the party is in is not passed
\* to handleSignal when it is delivered: it is not marked seen, creates no
\* transport and no session, suspends no handler and so causes no answer
\* in the room the party is in.
C19_OnlyCurrentRoomHandled ==
    [][\A p \in Party : \A item \in medium :
         ( /\ room[p] # NoRoom /\ item.room # room[p]
           /\ Deliver(p, item) )
         => UNCHANGED << signalSeen, handled, connections, peers, tasks >>]_vars

\* C20: once init has run, and after every import-identity, failed or
\* not, and every regenerate-identity, the two persisted keys are the
\* texts of the active key pair, the active public key is the one derived
\* from the active private key, and the short id and the shown public key
\* are computed from the active public key.
C20_IdentityConsistent ==
    \A p \in Party :
        booted[p]
        => /\ storage[p] = Stored(myKeyPair[p])
           /\ fromB64(storage[p].priv) = myKeyPair[p].priv
           /\ fromB64(storage[p].pub) = myKeyPair[p].pub
           /\ myKeyPair[p].pub = getPublicKey(myKeyPair[p].priv)
           /\ myId[p] = shortId(myKeyPair[p].pub)
           /\ myPubB64[p] = toB64(myKeyPair[p].pub)

\* after init, an import that succeeded and an import that failed
C20_Witness ==
    /\ booted["A"] /\ idOps["A"] >= 2
    /\ lastAlert["A"] = "InvalidSeed"
    /\ myKeyPair["A"] = KeyPair(StrangerPair.priv)

=============================================================================
